---- MODULE Spec2Model ----
(***************************************************************************)
(* Tom Basso coin-toss backtests: the per-bar loops of                     *)
(*   run_tom_basso_coin_toss (tom_basso_simplified_with_trailing_stop.py   *)
(*                            and tom_basso_simplified_with_plot.py)       *)
(*   run_random_backtest     (tom_basso_simplified_v2.py)                  *)
(* The data frame is consumed one row per step; the rows (Close, ATR,      *)
(* TotalSignal) are chosen nondeterministically.  Python floats are        *)
(* modelled as exact fractions <<n, d>> with d > 0, extended with the      *)
(* IEEE values <<1,0>> (+inf), <<-1,0>> (-inf) and <<0,0>> (nan) that a    *)
(* numpy.float64 division by zero produces (rounding is not modelled).     *)
(***************************************************************************)
EXTENDS Integers, Sequences, FiniteSets, TLC

VARIABLES variant, bars, equity, position, entry_price, trail_stop, trades,
          equity_curve, last

vars == <<variant, bars, equity, position, entry_price, trail_stop, trades,
          equity_curve, last>>

(* ------------------------------ bounds --------------------------------- *)

\* number of rows of the data frame that are replayed
MaxBars == 3

(* ------------------------- float arithmetic ---------------------------- *)

Abs(x) == IF x < 0 THEN -x ELSE x

Sign(x) == IF x < 0 THEN -1 ELSE IF x > 0 THEN 1 ELSE 0

RECURSIVE GCD(_, _)
GCD(a, b) == IF b = 0 THEN a ELSE GCD(b, a % b)

LCM(a, b) == (a \div GCD(a, b)) * b

\* the float with value n/d (d >= 0), in lowest terms; d = 0 gives inf or nan
Norm(n, d) ==
    IF d = 0 THEN <<Sign(n), 0>>
    ELSE LET g == GCD(Abs(n), d) IN <<n \div g, d \div g>>

Float(k) == <<k, 1>>

NaN == <<0, 0>>

IsNaN(a) == a = NaN

IsFinite(a) == a[2] # 0

Neg(a) == <<-a[1], a[2]>>

\* a + b
Add(a, b) ==
    IF IsNaN(a) \/ IsNaN(b) THEN NaN
    ELSE IF ~IsFinite(a) /\ ~IsFinite(b) THEN (IF a = b THEN a ELSE NaN)
    ELSE IF ~IsFinite(a) THEN a
    ELSE IF ~IsFinite(b) THEN b
    ELSE LET l == LCM(a[2], b[2])
         IN  Norm(a[1] * (l \div a[2]) + b[1] * (l \div b[2]), l)

\* a - b
Sub(a, b) == Add(a, Neg(b))

\* a * b  (inf * 0 is nan)
Mul(a, b) == Norm(a[1] * b[1], a[2] * b[2])

\* a / b  (x / 0 is +-inf, 0 / 0 is nan: numpy warns and does not raise)
Div(a, b) ==
    LET s == IF b[1] < 0 THEN -1 ELSE 1
    IN  Norm(s * a[1] * b[2], s * a[2] * b[1])

\* a < b  (False when either side is nan)
Lt(a, b) ==
    IF IsNaN(a) \/ IsNaN(b) THEN FALSE
    ELSE IF ~IsFinite(a) \/ ~IsFinite(b)
         THEN (a = <<-1, 0>> /\ b # <<-1, 0>>) \/ (b = <<1, 0>> /\ a # <<1, 0>>)
    ELSE LET l == LCM(a[2], b[2])
         IN  a[1] * (l \div a[2]) < b[1] * (l \div b[2])

\* a == b  (False when either side is nan)
Eq(a, b) == ~IsNaN(a) /\ ~IsNaN(b) /\ a = b

Le(a, b) == Lt(a, b) \/ Eq(a, b)

Gt(a, b) == Lt(b, a)

Ge(a, b) == Le(b, a)

\* Python's max(a, b): the first argument unless the second is greater
PyMax(a, b) == IF Gt(b, a) THEN b ELSE a

\* Python's min(a, b): the first argument unless the second is smaller
PyMin(a, b) == IF Lt(b, a) THEN b ELSE a

RECURSIVE Sum(_)
Sum(s) == IF s = <<>> THEN Float(0) ELSE Add(Sum(SubSeq(s, 1, Len(s) - 1)), s[Len(s)])

(* --------------------------- program constants ------------------------- *)

\* initial_capital=10000
initial_capital == Float(10000)

\* risk_pct=0.01
risk_pct == <<1, 100>>

\* atr_mult=3.0
atr_mult == Float(3)

\* $100 position size of the fixed-notional baseline
fixed_notional == Float(100)

(* ------------------------------ the rows ------------------------------- *)

\* TotalSignal: 1 = short / sell, 2 = long / buy
Signals == {1, 2}

\* Close prices of the replayed rows (positive)
Closes == {94, 95, 100, 105, 400}

\* ATR of the rows the scripts replay: rows with High = Low are dropped and the
\* warm-up rows (nan) are dropped, so every true range, and so the ATR, is > 0
ProgramATRs == {1, 2}

\* ATR of the rows of an arbitrary data frame handed to the function
AnyATRs == {0, 1, 2}

(* ---------------------- run_tom_basso_coin_toss ------------------------ *)

\* the local variables of the loop
Engine == [equity |-> equity, position |-> position, entry_price |-> entry_price,
           trail_stop |-> trail_stop, trades |-> trades]

\* risk_amount = risk_pct * equity
risk_amount(s) == Mul(risk_pct, s.equity)

\* stop_distance = atr_mult * atr
stop_distance(atr) == Mul(atr_mult, atr)

\* slip: the ATR multiple left out of the sizing (risk_amount / atr)
position_size_NoMult(s, atr) == Div(risk_amount(s), atr)

\* position_size = risk_amount / stop_distance
position_size(s, atr) == Div(risk_amount(s), stop_distance(atr))

\* if signal == 2 and position <= 0
LongEntryTaken(s, signal) == signal = 2 /\ Le(s.position, Float(0))

\* elif signal == 1 and position >= 0
ShortEntryTaken(s, signal) ==
    ~LongEntryTaken(s, signal) /\ signal = 1 /\ Ge(s.position, Float(0))

\* slip: the short branch's initial stop copied into the long branch
InitialStopLong_Above(price, atr) == Add(price, stop_distance(atr))

\* trail_stop = price - stop_distance
InitialStopLong(price, atr) == Sub(price, stop_distance(atr))

\* slip: the long branch's initial stop copied into the short branch
InitialStopShort_Below(price, atr) == Sub(price, stop_distance(atr))

\* trail_stop = price + stop_distance
InitialStopShort(price, atr) == Add(price, stop_distance(atr))

\* the entry step of one bar
EntryStep(s, price, atr, signal) ==
    IF LongEntryTaken(s, signal)
    THEN [s EXCEPT !.position = position_size(s, atr),
                   !.entry_price = price,
                   !.trail_stop = InitialStopLong(price, atr)]
    ELSE IF ShortEntryTaken(s, signal)
    THEN [s EXCEPT !.position = Neg(position_size(s, atr)),
                   !.entry_price = price,
                   !.trail_stop = InitialStopShort(price, atr)]
    ELSE s

\* slip: the stop follows the close both ways (trail_stop = new_trail)
TrailLong_NoRatchet(s, price, atr) == Sub(price, Mul(atr_mult, atr))

\* trail_stop = max(trail_stop, new_trail), new_trail = price - atr_mult * atr
TrailLong(s, price, atr) == PyMax(s.trail_stop, Sub(price, Mul(atr_mult, atr)))

\* trail_stop = min(trail_stop, new_trail), new_trail = price + atr_mult * atr
TrailShort(s, price, atr) == PyMin(s.trail_stop, Add(price, Mul(atr_mult, atr)))

\* pnl = position * (price - entry_price)
pnl(s, price) == Mul(s.position, Sub(price, s.entry_price))

\* slip: the realized P&L taken off the equity (equity -= pnl)
EquityAfterClose_Minus(s, price) == Sub(s.equity, pnl(s, price))

\* equity += pnl
EquityAfterClose(s, price) == Add(s.equity, pnl(s, price))

\* equity += pnl; trades.append(pnl); position = 0
ClosePosition(s, price) ==
    [s EXCEPT !.equity = EquityAfterClose(s, price),
              !.trades = Append(s.trades, pnl(s, price)),
              !.position = Float(0)]

\* slip: the stop test made strict (if price < trail_stop)
StopHitLong_Strict(s, price, atr) ==
    Gt(s.position, Float(0)) /\ Lt(price, TrailLong(s, price, atr))

\* if position > 0 ... if price <= trail_stop
StopHitLong(s, price, atr) ==
    Gt(s.position, Float(0)) /\ Le(price, TrailLong(s, price, atr))

\* elif position < 0 ... if price >= trail_stop
StopHitShort(s, price, atr) ==
    ~Gt(s.position, Float(0)) /\ Lt(s.position, Float(0))
    /\ Ge(price, TrailShort(s, price, atr))

\* the trailing-stop step of one bar
StopStep(s, price, atr) ==
    IF Gt(s.position, Float(0))
    THEN LET t == [s EXCEPT !.trail_stop = TrailLong(s, price, atr)]
         IN  IF StopHitLong(s, price, atr) THEN ClosePosition(t, price) ELSE t
    ELSE IF Lt(s.position, Float(0))
    THEN LET t == [s EXCEPT !.trail_stop = TrailShort(s, price, atr)]
         IN  IF StopHitShort(s, price, atr) THEN ClosePosition(t, price) ELSE t
    ELSE s

\* what one iteration of the loop did: the row, the locals before it, the
\* locals between the entry step and the trailing-stop step
Iteration(s, m, price, atr, signal) ==
    [price |-> price, atr |-> atr, signal |-> signal, pre |-> s, mid |-> m,
     entered |-> LongEntryTaken(s, signal) \/ ShortEntryTaken(s, signal),
     stopHit |-> StopHitLong(m, price, atr) \/ StopHitShort(m, price, atr)]

\* one iteration of the loop on the row (close, a, signal)
LoopBody(close, a, signal) ==
    LET price == Float(close)
        atr   == Float(a)
        m     == EntryStep(Engine, price, atr, signal)
        e     == StopStep(m, price, atr)
    IN  /\ equity' = e.equity
        /\ position' = e.position
        /\ entry_price' = e.entry_price
        /\ trail_stop' = e.trail_stop
        /\ trades' = e.trades
        /\ bars' = Append(bars, <<close, a, signal>>)
        /\ last' = Iteration(Engine, m, price, atr, signal)

\* equity_curve.append(equity)
CurveAfterBar(curve, eq) == Append(curve, eq)

\* tom_basso_simplified_with_trailing_stop.py: for i in range(len(df))
TrailingStopBar(ATRs) ==
    /\ variant = "trailing_stop"
    /\ Len(bars) < MaxBars
    /\ \E close \in Closes, a \in ATRs, signal \in Signals :
          LoopBody(close, a, signal)
    /\ UNCHANGED <<variant, equity_curve>>

\* tom_basso_simplified_with_plot.py: for i in range(len(df))
PlotBar(ATRs) ==
    /\ variant = "plot"
    /\ Len(bars) < MaxBars
    /\ \E close \in Closes, a \in ATRs, signal \in Signals :
          LoopBody(close, a, signal)
    /\ equity_curve' = CurveAfterBar(equity_curve, equity')
    /\ UNCHANGED variant

(* ------------------------- run_random_backtest ------------------------- *)

\* slip: the flat check of the buy branch left out (if signal == 2)
BuyTaken_Always(s, signal) == signal = 2

\* if signal == 2 and position == 0
BuyTaken(s, signal) == signal = 2 /\ Eq(s.position, Float(0))

\* elif signal == 1 and position > 0
SellTaken(s, signal) == ~BuyTaken(s, signal) /\ signal = 1 /\ Gt(s.position, Float(0))

\* the body of the loop of run_random_backtest
BaselineStep(s, price, signal) ==
    IF BuyTaken(s, signal)
    THEN [s EXCEPT !.position = Div(fixed_notional, price), !.entry_price = price]
    ELSE IF SellTaken(s, signal)
    THEN ClosePosition(s, price)
    ELSE s

\* tom_basso_simplified_v2.py: for i in range(len(df))
BaselineBar ==
    /\ variant = "v2"
    /\ Len(bars) < MaxBars
    /\ \E close \in Closes, a \in ProgramATRs, signal \in Signals :
          LET price == Float(close)
              e     == BaselineStep(Engine, price, signal)
          IN  /\ equity' = e.equity
              /\ position' = e.position
              /\ entry_price' = e.entry_price
              /\ trades' = e.trades
              /\ bars' = Append(bars, <<close, a, signal>>)
              /\ last' = [price |-> price, atr |-> Float(a), signal |-> signal,
                          pre |-> Engine, mid |-> Engine,
                          entered |-> BuyTaken(Engine, signal),
                          stopHit |-> FALSE]
    /\ UNCHANGED <<variant, trail_stop, equity_curve>>

(* --------------------------- specifications ---------------------------- *)

\* the locals as the functions initialise them
Init ==
    /\ variant \in {"trailing_stop", "plot", "v2"}
    /\ bars = <<>>
    /\ equity = initial_capital
    /\ position = Float(0)
    /\ entry_price = Float(0)
    /\ trail_stop = Float(0)
    /\ trades = <<>>
    /\ equity_curve = IF variant = "plot" THEN <<initial_capital>> ELSE <<>>
    /\ last = [price |-> Float(0), atr |-> Float(0), signal |-> 0,
               pre |-> Engine, mid |-> Engine, entered |-> FALSE, stopHit |-> FALSE]

\* the three scripts on the rows they load
Next == TrailingStopBar(ProgramATRs) \/ PlotBar(ProgramATRs) \/ BaselineBar

Spec == Init /\ [][Next]_vars

\* run_tom_basso_coin_toss called on an arbitrary data frame
InitAnyATR == Init /\ variant \in {"trailing_stop", "plot"}

NextAnyATR == TrailingStopBar(AnyATRs) \/ PlotBar(AnyATRs)

SpecAnyATR == InitAnyATR /\ [][NextAnyATR]_vars

(* ------------------------------ properties ----------------------------- *)

\* the trailing-stop engine, in either of its two files
IsTrailing == variant \in {"trailing_stop", "plot"}

\* at least one row has been processed, so `last` describes a real iteration
Started == Len(bars) >= 1

Zero == Float(0)

\* C1: monotonic ratchet. If a long position is open at the end of two
\* consecutive bars, trail_stop after the second is >= trail_stop after the
\* first; if a short position is open at the end of both, it is <=.
C1_MonotonicRatchet ==
    (IsTrailing /\ Started) =>
        /\ (Gt(last.pre.position, Zero) /\ Gt(position, Zero))
              => Ge(trail_stop, last.pre.trail_stop)
        /\ (Lt(last.pre.position, Zero) /\ Lt(position, Zero))
              => Le(trail_stop, last.pre.trail_stop)

\* a long position survives a bar on which its stop moved up
C1_Witness ==
    /\ IsTrailing /\ Started
    /\ Gt(last.pre.position, Zero) /\ Gt(position, Zero)
    /\ Gt(trail_stop, last.pre.trail_stop)

\* C2: equity conservation. In both engines, after any number of bars,
\* equity == initial_capital + the sum of the P&L values recorded in trades;
\* the unrealized P&L of an open position is not part of it.
C2_EquityConservation == Eq(equity, Add(initial_capital, Sum(trades)))

\* a position was closed at a loss or a gain, so equity has moved
C2_Witness ==
    /\ Len(trades) >= 1
    /\ ~Eq(trades[Len(trades)], Zero)
    /\ ~Eq(equity, initial_capital)

\* C3: zero-ATR guard. On a bar whose ATR is 0 and whose entry condition is
\* met, no division by zero is performed and position, entry_price,
\* trail_stop, equity and trades are as they were before the entry step.
C3_ZeroATRGuard ==
    (/\ IsTrailing /\ Started
     /\ Eq(last.atr, Zero)
     /\ \/ (last.signal = 2 /\ Le(last.pre.position, Zero))
        \/ (last.signal = 1 /\ Ge(last.pre.position, Zero)))
    => /\ last.mid = last.pre
       /\ IsFinite(last.mid.position)

\* C4: every position close is logged. Each time an open position ceases to
\* exist, by a stop exit or by a reversal, exactly one trade with
\* P&L = position * (close - entry_price) of the closed position is appended
\* to trades and added to equity.
C4_EveryCloseLogged ==
    (/\ IsTrailing /\ Started
     /\ ~Eq(last.pre.position, Zero)
     /\ \/ Eq(position, Zero)
        \/ Lt(Mul(position, last.pre.position), Zero))
    => LET closed == Mul(last.pre.position, Sub(last.price, last.pre.entry_price))
       IN  /\ trades = Append(last.pre.trades, closed)
           /\ Eq(equity, Add(last.pre.equity, closed))

\* C5: reversal. A long position open at the start of a bar whose signal is
\* SHORT (ATR > 0, equity > 0) is, at the end of the bar, a short position
\* entered at the bar's close with trail_stop = close + atr_mult * ATR; no stop
\* exit fires on the bar and the position is never zero during it.
\* Symmetrically for a short position and a LONG signal.
C5_Reversal ==
    (/\ IsTrailing /\ Started
     /\ Gt(last.atr, Zero) /\ Gt(last.pre.equity, Zero))
    => /\ (Gt(last.pre.position, Zero) /\ last.signal = 1)
            => /\ Lt(last.mid.position, Zero) /\ Lt(position, Zero)
               /\ Eq(entry_price, last.price)
               /\ Eq(trail_stop, Add(last.price, Mul(atr_mult, last.atr)))
               /\ trades = last.pre.trades
       /\ (Lt(last.pre.position, Zero) /\ last.signal = 2)
            => /\ Gt(last.mid.position, Zero) /\ Gt(position, Zero)
               /\ Eq(entry_price, last.price)
               /\ Eq(trail_stop, Sub(last.price, Mul(atr_mult, last.atr)))
               /\ trades = last.pre.trades

\* a long position was reversed into a short one at a different close
C5_Witness ==
    /\ IsTrailing /\ Started
    /\ Gt(last.pre.position, Zero) /\ last.signal = 1
    /\ Lt(position, Zero)
    /\ ~Eq(last.pre.entry_price, last.price)

\* C6: position sign matches direction. In every reachable state a LONG entry
\* (signal 2 taken with position <= 0) leaves position strictly positive and a
\* SHORT entry (signal 1 taken with position >= 0) strictly negative.
C6_SignMatchesDirection ==
    (IsTrailing /\ Started /\ Gt(last.atr, Zero)) =>
        /\ (last.signal = 2 /\ Le(last.pre.position, Zero))
              => Gt(last.mid.position, Zero)
        /\ (last.signal = 1 /\ Ge(last.pre.position, Zero))
              => Lt(last.mid.position, Zero)

\* C7: per-trade risk cap. The realized loss of every recorded trade is at
\* most risk_pct * (equity when that position was entered).
C7_RiskCap ==
    (/\ IsTrailing /\ Started
     /\ Len(trades) = Len(last.pre.trades) + 1
     /\ Lt(trades[Len(trades)], Zero))
    => Le(Neg(trades[Len(trades)]), Mul(risk_pct, last.pre.equity))

\* C8: equity curve alignment. After N bars the plotting variant's
\* equity_curve has exactly N entries, the i-th being the equity after bar i.
C8_CurveAligned ==
    (variant = "plot" /\ Started) =>
        /\ Len(equity_curve) = Len(bars)
        /\ equity_curve[Len(bars)] = equity

\* C9: fixed-notional baseline. position leaves zero only on a BUY while flat,
\* returns to zero only on a SELL, which records exactly one trade; on a BUY
\* while long or a SELL while flat nothing changes; no price move alone closes
\* a position.
C9_BaselineFrame ==
    (variant = "v2" /\ Started) =>
        /\ (Eq(last.pre.position, Zero) /\ ~Eq(position, Zero)) => last.signal = 2
        /\ (~Eq(last.pre.position, Zero) /\ Eq(position, Zero))
              => /\ last.signal = 1
                 /\ Len(trades) = Len(last.pre.trades) + 1
        /\ (\/ (last.signal = 2 /\ ~Eq(last.pre.position, Zero))
            \/ (last.signal = 1 /\ Eq(last.pre.position, Zero)))
              => Engine = last.pre
        /\ (Len(trades) # Len(last.pre.trades))
              => (last.signal = 1 /\ Gt(last.pre.position, Zero))

\* a BUY arrives while long, at a close other than the entry price
C9_Witness ==
    /\ variant = "v2" /\ Started
    /\ last.signal = 2 /\ Gt(last.pre.position, Zero)
    /\ ~Eq(last.price, entry_price)

\* the rows of the long round trip: closes 100, 105, 95, ATR 2, LONG signals
RoundTrip == << <<100, 2, 2>>, <<105, 2, 2>>, <<95, 2, 2>> >>

\* C10: long round trip. From flat, closes [100, 105, 95] with ATR 2 and LONG
\* signals: bar 1 opens a long at 100 with trail_stop 94, bar 2 ratchets the
\* stop to 99 without exiting, bar 3 exits at 95 with one trade of
\* pnl = position * (95 - 100), position = risk_pct * initial_capital / 6,
\* leaving the engine flat with equity = initial_capital + pnl.
C10_LongRoundTrip ==
    LET size == Div(Mul(risk_pct, initial_capital), Float(6))
        loss == Mul(size, Float(95 - 100))
    IN  IsTrailing =>
        /\ bars = SubSeq(RoundTrip, 1, 1)
              => /\ Eq(position, size) /\ Eq(entry_price, Float(100))
                 /\ Eq(trail_stop, Float(94)) /\ trades = <<>>
        /\ bars = SubSeq(RoundTrip, 1, 2)
              => /\ Eq(position, size) /\ Eq(entry_price, Float(100))
                 /\ Eq(trail_stop, Float(99)) /\ trades = <<>>
                 /\ Eq(equity, initial_capital)
        /\ bars = RoundTrip
              => /\ Eq(position, Zero) /\ trades = <<loss>>
                 /\ Eq(equity, Add(initial_capital, loss))

\* the three rows have been replayed and the one trade is recorded
C10_Witness ==
    /\ IsTrailing /\ bars = RoundTrip
    /\ Len(trades) = 1 /\ Lt(trades[1], Zero)

\* C11: stop-exit invariant. At the end of every bar a long position that is
\* still open has close > trail_stop and a short one close < trail_stop; a
\* long held into the stop step is closed on exactly the bars where
\* close <= trail_stop after the ratchet update, a short where close >= it.
C11_StopExit ==
    (IsTrailing /\ Started) =>
        /\ Gt(position, Zero) => Gt(last.price, trail_stop)
        /\ Lt(position, Zero) => Lt(last.price, trail_stop)
        /\ Gt(last.mid.position, Zero)
              => (Eq(position, Zero) <=> Le(last.price, trail_stop))
        /\ Lt(last.mid.position, Zero)
              => (Eq(position, Zero) <=> Ge(last.price, trail_stop))

\* a long position is closed by a close exactly on its stop
C11_Witness ==
    /\ IsTrailing /\ Started
    /\ Gt(last.mid.position, Zero) /\ Eq(position, Zero)
    /\ Eq(last.price, trail_stop)

\* C12: with ATR > 0 and equity > 0, a position entered or reversed on a bar
\* is not stopped out on that bar; the engine is flat at the end of a bar only
\* if a stop-exit trade was recorded on it, and it is never flat at the end of
\* two consecutive bars (the bar after a stop exit opens a new position in the
\* direction of its signal).
C12_NoSameBarStop ==
    (/\ IsTrailing /\ Started
     /\ Gt(last.atr, Zero) /\ Gt(last.pre.equity, Zero))
    => /\ (\/ (last.signal = 2 /\ Le(last.pre.position, Zero))
           \/ (last.signal = 1 /\ Ge(last.pre.position, Zero)))
             => /\ trades = last.pre.trades
                /\ IF last.signal = 2 THEN Gt(position, Zero) ELSE Lt(position, Zero)
       /\ Eq(position, Zero)
             => /\ ~Eq(last.pre.position, Zero)
                /\ Len(trades) = Len(last.pre.trades) + 1
       /\ ~(Eq(last.pre.position, Zero) /\ Eq(position, Zero))

\* the bar after a stop exit opens a new position
C12_Witness ==
    /\ IsTrailing /\ Len(bars) >= 3
    /\ Gt(last.pre.equity, Zero)
    /\ Eq(last.pre.position, Zero) /\ Len(last.pre.trades) = 1
    /\ ~Eq(position, Zero)

====
